---------------------------- MODULE Spec2Model ----------------------------
(***************************************************************************)
(* A model of runsd's reverse proxy: the host resolver                     *)
(* (resolveCloudRunHost), the Director of the httputil.ReverseProxy built  *)
(* by newReverseProxyHandler, the transport chain                          *)
(* loggingTransport -> authenticatingTransport -> base sender, and         *)
(* tokenFromHost.                                                          *)
(*                                                                         *)
(* Strings whose characters the code inspects (hosts, domains, backend     *)
(* authorities) are sequences of one-character strings.  Strings that are  *)
(* only split at "/" and looked up whole (region identifiers, the metadata *)
(* response body) are sequences of slash-free chunks with "/" as its own   *)
(* element.                                                                *)
(***************************************************************************)
EXTENDS Naturals, Sequences, FiniteSets, TLC

VARIABLES cfg,     \* the reverseProxy struct: projectHash, currentRegion, internalDomain
          reqs,    \* one record per in-flight inbound request
          rcall    \* the last direct invocation of resolveCloudRunHost (ResolveSpec)

vars == <<cfg, reqs, rcall>>

---------------------------------------------------------------------------
(* Bounds of the model *)

\* bare service names are all strings over NameChars of length 1..MaxNameLen
MaxNameLen == 2
\* ports are all strings over PortChars of length 0..MaxPortLen
MaxPortLen == 1
\* number of inbound requests in flight at the same time
NReq == 2

---------------------------------------------------------------------------
(* String helpers (package strings) *)

Upper == <<"A","B","C","D","E","F","G","H","I","J","K","L","M",
           "N","O","P","Q","R","S","T","U","V","W","X","Y","Z">>
Lower == <<"a","b","c","d","e","f","g","h","i","j","k","l","m",
           "n","o","p","q","r","s","t","u","v","w","x","y","z">>

ToLowerChar(c) ==
    IF \E k \in 1..26 : Upper[k] = c
    THEN Lower[CHOOSE k \in 1..26 : Upper[k] = c]
    ELSE c

\* strings.ToLower
ToLower(s) == [k \in 1..Len(s) |-> ToLowerChar(s[k])]

\* strings.Contains(s, c) for a one-character c
Contains(s, c) == \E k \in 1..Len(s) : s[k] = c

\* strings.Count(s, c) for a one-character c
Count(s, c) == Cardinality({k \in 1..Len(s) : s[k] = c})

SetMin(S) == CHOOSE x \in S : \A y \in S : x <= y
SetMax(S) == CHOOSE x \in S : \A y \in S : y <= x

\* index of the first / last occurrence of c in s, 0 when there is none
\* (Go's -1, shifted to 1-based indexing)
IndexByte(s, c) ==
    LET I == {k \in 1..Len(s) : s[k] = c}
    IN  IF I = {} THEN 0 ELSE SetMin(I)
LastIndexByte(s, c) ==
    LET I == {k \in 1..Len(s) : s[k] = c}
    IN  IF I = {} THEN 0 ELSE SetMax(I)

\* strings.Trim(s, c): s without its leading and trailing c's
Trim(s, c) ==
    LET I == {k \in 1..Len(s) : s[k] # c}
    IN  IF I = {} THEN <<>> ELSE SubSeq(s, SetMin(I), SetMax(I))

HasSuffix(s, suf) ==
    /\ Len(suf) <= Len(s)
    /\ SubSeq(s, Len(s) - Len(suf) + 1, Len(s)) = suf

\* strings.TrimSuffix
TrimSuffix(s, suf) ==
    IF HasSuffix(s, suf) THEN SubSeq(s, 1, Len(s) - Len(suf)) ELSE s

\* the last element of strings.Split(s, "/")
LastSegment(s) == SubSeq(s, LastIndexByte(s, "/") + 1, Len(s))

\* t occurs in s as a contiguous substring
IsSubstring(t, s) ==
    \E k \in 0..(Len(s) - Len(t)) : SubSeq(s, k + 1, k + Len(t)) = t

\* all strings over alphabet A of length lo..hi
Strings(A, lo, hi) == UNION {[1..n -> A] : n \in lo..hi}


---------------------------------------------------------------------------
(* Errors.  The code builds them with fmt.Errorf; kind classifies the      *)
(* message, arg is the value formatted into it (the %q of "region %q is    *)
(* not handled", the %s of "failed to fetch metadata token from host %s"). *)

NoErr == [kind |-> "nil", arg |-> <<>>]
UnknownRegion(r) == [kind |-> "UnknownRegion", arg |-> r]
MetadataUnavailable == [kind |-> "MetadataUnavailable", arg |-> <<>>]

\* err.Error(), as %v prints it
ErrText(err) ==
    CASE err.kind = "UnknownRegion" ->
            <<"region ", "\"">> \o err.arg \o <<"\"", " is not handled">>
      [] err.kind = "MetadataUnavailable" ->
            <<"Can't retrieve region for current execution">>
      [] OTHER -> <<"<nil>">>

---------------------------------------------------------------------------
(* Host resolver *)

UsCentral1  == <<"us-central1">>
EuropeWest1 == <<"europe-west1">>

\* The Region Code Table.  Its provisioning lies outside the modelled files;
\* us-central1 -> uc1 is the entry the specification names, the second entry
\* stands for any other registered region.
cloudRunRegionCodes ==
    (UsCentral1 :> <<"u","c","1">>) @@ (EuropeWest1 :> <<"e","w","1">>)

RunAppSuffix == <<".","a",".","r","u","n",".","a","p","p">>

mkCloudRunHostSwapped(svc, regionCode, projectHash) ==
    svc \o <<"-">> \o regionCode \o <<"-">> \o projectHash \o RunAppSuffix

\* fmt.Sprintf("%s-%s-%s.a.run.app", svc, projectHash, regionCode)
mkCloudRunHost(svc, regionCode, projectHash) ==
    svc \o <<"-">> \o projectHash \o <<"-">> \o regionCode \o RunAppSuffix

canonicalHostnameKeepCase(hostname) == hostname

\* hostname = strings.ToLower(hostname)
canonicalHostname(hostname) == ToLower(hostname)

\* What the environment gives one call of resolveCloudRunHost:
\*   kService : os.Getenv("K_SERVICE")
\*   meta     : the outcome of the GET to the metadata server,
\*                doErr   - client.Do returned an error
\*                bytes   - what ioutil.ReadAll returned
\*                readErr - ioutil.ReadAll also returned an error
\* The result is the pair (string, error) of the code, together with the
\* number of metadata requests made and the value logged for `trimmed`.
resolveCloudRunHost(internalDomain, hostname0, curRegion, projectHash, env) ==
    LET hostname == canonicalHostname(hostname0)
    IN
    IF ~Contains(hostname, ".")
    THEN \* in the same region
         IF curRegion \notin DOMAIN cloudRunRegionCodes
         THEN [host |-> <<>>, err |-> UnknownRegion(curRegion),
               metaQueries |-> 0, trimmedDots |-> 0]
         ELSE [host |-> mkCloudRunHost(hostname, cloudRunRegionCodes[curRegion], projectHash),
               err |-> NoErr, metaQueries |-> 0, trimmedDots |-> 0]
    ELSE
    LET trimmed == TrimSuffix(hostname, <<".">> \o Trim(internalDomain, "."))
        svc     == env.kService
        region  == LastSegment(env.meta.bytes)
    IN  IF env.meta.doErr
        THEN [host |-> <<>>, err |-> MetadataUnavailable,
              metaQueries |-> 1, trimmedDots |-> Count(trimmed, ".")]
        ELSE IF region \notin DOMAIN cloudRunRegionCodes
        THEN \* the message names curRegion, not the region looked up
             [host |-> <<>>, err |-> UnknownRegion(curRegion),
              metaQueries |-> 1, trimmedDots |-> Count(trimmed, ".")]
        ELSE [host |-> mkCloudRunHost(svc, cloudRunRegionCodes[region], projectHash),
              err |-> NoErr, metaQueries |-> 1, trimmedDots |-> Count(trimmed, ".")]


---------------------------------------------------------------------------
(* Inputs *)

NameChars == {"a", "A"}
HostChars == {"a", "A", "."}
PortChars == {"8"}

\* hostnames handed to resolveCloudRunHost directly: all strings over
\* HostChars of length 0..MaxHostLen, and some longer ones
MaxHostLen == 3

MyService   == <<"m","y","s","e","r","v","i","c","e">>
DotInternal == <<".","i","n","t","e","r","n","a","l">>
DotOther    == <<".","x">>
Abcd1234    == <<"a","b","c","d","1","2","3","4">>

ProjectHashes   == {Abcd1234, <<"p">>}
InternalDomains == {Tail(DotInternal), DotInternal \o <<".">>, <<>>}
Services        == {<<"s","e","l","f">>, <<>>}

\* region identifiers: two registered ones, a re-cased one, an unregistered
\* one, and the empty string
Regions == {UsCentral1, EuropeWest1, <<"US-CENTRAL1">>, <<"mars-1">>, <<>>}

RegionPath(r) == <<"projects", "/", "123456", "/", "regions", "/">> \o r

\* outcomes of the request to the metadata server
MetaOutcomes ==
    {[doErr |-> TRUE, bytes |-> <<>>, readErr |-> FALSE]}
    \cup {[doErr |-> FALSE, bytes |-> RegionPath(r), readErr |-> FALSE] :
            r \in {UsCentral1, EuropeWest1, <<"mars-1">>, <<>>}}
    \cup {[doErr |-> FALSE, bytes |-> b, readErr |-> FALSE] :
            b \in {<<>>, <<"Not Found">>}}
    \cup {[doErr |-> FALSE, bytes |-> b, readErr |-> TRUE] :
            b \in {<<>>, <<"projects", "/">>, RegionPath(UsCentral1)}}

Envs == [kService : Services, meta : MetaOutcomes]

ResolveHostnames ==
    Strings(HostChars, 0, MaxHostLen)
    \cup {MyService, MyService \o DotInternal, MyService \o DotOther,
          <<"A">> \o ToLower(DotInternal) \o <<".">>,
          <<"a", ".", "B">> \o DotInternal}

---------------------------------------------------------------------------
(* Director *)

\* net.SplitHostPort, with 1-based indices; err stands for any of its
\* address errors (missing port, too many colons, missing or unexpected
\* bracket)
SplitHostPort(hostport) ==
    LET n    == Len(hostport)
        i    == LastIndexByte(hostport, ":")
        end  == IndexByte(hostport, "]")
        Fail == [host |-> <<>>, port |-> <<>>, err |-> TRUE]
        Rest(from) == SubSeq(hostport, from, n)
        Done(host, j, k) ==
            IF Contains(Rest(j), "[") \/ Contains(Rest(k), "]")
            THEN Fail
            ELSE [host |-> host, port |-> Rest(i + 1), err |-> FALSE]
    IN  IF i = 0 THEN Fail
        ELSE IF hostport[1] = "["
        THEN IF end = 0 \/ end = n \/ end + 1 # i
             THEN Fail
             ELSE Done(SubSeq(hostport, 2, end - 1), 2, end + 1)
        ELSE IF Contains(SubSeq(hostport, 1, i - 1), ":")
             THEN Fail
             ELSE Done(SubSeq(hostport, 1, i - 1), 1, 1)

\* origHost := req.Host; if h, p, err := net.SplitHostPort(origHost); err == nil { origHost = h }
stripPort(host) ==
    IF SplitHostPort(host).err THEN host ELSE SplitHostPort(host).host

NoResp == [status |-> 0, body |-> <<>>]

StatusInternalServerError == 500

\* %q of a Host header: the string in double quotes (no byte a Host header
\* may hold needs escaping)
Quote(s) == <<"\"">> \o s \o <<"\"">>

\* resp := &http.Response{StatusCode: 500, Body: "runsd doesn't know how to
\* handle host=%q: %v" of req.Host and err}
earlyResponse(req, err) ==
    [status |-> StatusInternalServerError,
     body   |-> <<"runsd doesn't know how to handle host=">> \o Quote(req.host)
                \o <<": ">> \o ErrText(err)]

dropEarlyResponse(req, resp) == req

\* *req = *req.WithContext(context.WithValue(req.Context(), ctxKeyEarlyResponse, resp))
withEarlyResponse(req, resp) == [req EXCEPT !.ctxEarly = resp]

rewriteRequestURLOnly(req, runHost) ==
    [req EXCEPT !.urlScheme = "https", !.urlHost = runHost, !.hdrHost = runHost]

\* req.URL.Scheme = "https"; req.URL.Host = runHost; req.Host = runHost;
\* req.Header.Set("host", runHost)
rewriteRequest(req, runHost) ==
    [req EXCEPT !.urlScheme = "https", !.urlHost = runHost,
                !.host = runHost, !.hdrHost = runHost]

\* The Director closure: the request it leaves behind, with the hostname it
\* resolved and what resolveCloudRunHost returned.
Director(req, rp, env) ==
    LET origHost == stripPort(req.host)
        out      == resolveCloudRunHost(rp.internalDomain, origHost,
                                        rp.currentRegion, rp.projectHash, env)
    IN  [origHost |-> origHost,
         out      |-> out,
         req      |-> IF out.err # NoErr
                      THEN withEarlyResponse(req, earlyResponse(req, out.err))
                      ELSE rewriteRequest(req, out.host)]

---------------------------------------------------------------------------
(* Transport chain *)

TokenFetchFailed(host) == [kind |-> "TokenFetchFailed", arg |-> host]

tokenFromHostPlainHTTP(host, issued) ==
    [audience |-> <<"http://">> \o host,
     token    |-> IF issued.err THEN <<>> ELSE issued.token,
     err      |-> IF issued.err THEN TokenFetchFailed(host) ELSE NoErr]

tokenFromHostIgnoreErr(host, issued) ==
    [audience |-> <<"https://">> \o host,
     token    |-> IF issued.err THEN <<>> ELSE issued.token,
     err      |-> NoErr]

\* idToken, err := identityToken("https://" + host); issued is what the
\* token provider answers for that audience
tokenFromHost(host, issued) ==
    [audience |-> <<"https://">> \o host,
     token    |-> IF issued.err THEN <<>> ELSE issued.token,
     err      |-> IF issued.err THEN TokenFetchFailed(host) ELSE NoErr]

NoResult == [resp |-> NoResp, err |-> NoErr]

\* authenticatingTransport.RoundTrip up to the call of the wrapped sender:
\* the early response stashed by the Director is returned at once; otherwise
\* a token is fetched for the request's host and set as bearer credential.
\*   forward  - the wrapped sender is to be called with req
\*   fetched  - the token provider was called
authenticatingTransport(req, issued) ==
    LET t == tokenFromHost(req.host, issued)
    IN  IF req.ctxEarly # NoResp
        THEN [forward |-> FALSE, fetched |-> FALSE, audience |-> <<>>, req |-> req,
              result |-> [resp |-> req.ctxEarly, err |-> NoErr]]
        ELSE IF t.err # NoErr
        THEN [forward |-> FALSE, fetched |-> TRUE, audience |-> t.audience, req |-> req,
              result |-> [resp |-> NoResp, err |-> t.err]]
        ELSE [forward |-> TRUE, fetched |-> TRUE, audience |-> t.audience,
              req |-> [req EXCEPT !.authorization = <<"Bearer ">> \o t.token],
              result |-> NoResult]

\* loggingTransport.RoundTrip before delegating: the request handed to the
\* wrapped sender
loggingTransportDelegate(req) == req

loggingTransportSwallow(result) ==
    IF result.err # NoErr
    THEN [resp |-> [status |-> 502, body |-> <<>>], err |-> NoErr]
    ELSE result

\* loggingTransport.RoundTrip after delegating: what it returns to its caller
loggingTransportReturn(result) == result

\* what loggingTransport logs: method, host and URL of the request, then the
\* status of the response or the error
logRequest(req) == <<req.method, req.host, req.urlScheme, req.urlHost>>
logResult(result) == IF result.err # NoErr THEN <<"error", result.err.kind>>
                     ELSE <<"status", result.resp.status>>

\* httputil.ReverseProxy.ServeHTTP after Transport.RoundTrip returned: an
\* error goes to the default ErrorHandler (502, no body), a response is
\* copied to the client
serveResponse(result) ==
    IF result.err # NoErr THEN [status |-> 502, body |-> <<>>]
    ELSE result.resp

---------------------------------------------------------------------------
(* The proxy: inbound requests through httputil.ReverseProxy.ServeHTTP *)

Requests == 1..NReq

NoCall == [called |-> FALSE]

\* newReverseProxy(projectHash, currentRegion, internalDomain)
Cfgs ==
    [projectHash : {Abcd1234}, currentRegion : {UsCentral1, <<"US-CENTRAL1">>},
     internalDomain : {Tail(DotInternal)}]

Names     == Strings(NameChars, 1, MaxNameLen) \cup {MyService}
IPv6Local == <<"[", ":", ":", "1", "]">>
Hostnames == Names \cup {n \o DotInternal : n \in Names} \cup {IPv6Local}
Ports     == Strings(PortChars, 0, MaxPortLen)

\* values of the inbound Host header
Hosts == Hostnames \cup {h \o <<":">> \o p : h \in Hostnames, p \in Ports}

Methods == {"GET", "POST"}
BodyOf(m) == IF m = "POST" THEN <<"payload">> ELSE <<>>

\* the metadata outcomes drawn for proxied requests
ProxyMeta == MetaOutcomes
NoMeta == [doErr |-> TRUE, bytes |-> <<>>, readErr |-> FALSE]
Self   == <<"s","e","l","f">>

\* answers of the token provider (identityToken) and of the base sender
TokenOutcomes == {[err |-> FALSE, token |-> <<"tok">>], [err |-> TRUE, token |-> <<>>]}
NoToken == [err |-> TRUE, token |-> <<>>]
ConnectFailed == [kind |-> "ConnectFailed", arg |-> <<>>]
SendOutcomes ==
    {[resp |-> [status |-> 200, body |-> <<"ok">>], err |-> NoErr],
     [resp |-> [status |-> 500, body |-> <<"backend failure">>], err |-> NoErr],
     [resp |-> NoResp, err |-> ConnectFailed]}

NoRequest ==
    [host |-> <<>>, method |-> "", body |-> <<>>, urlScheme |-> "", urlHost |-> <<>>,
     hdrHost |-> <<>>, authorization |-> <<>>, ctxEarly |-> NoResp]

NoResolve == [host |-> <<>>, err |-> NoErr, metaQueries |-> 0, trimmedDots |-> 0]

Idle ==
    [pc |-> "idle", inbound |-> NoRequest, directed |-> NoRequest, req |-> NoRequest,
     origHost |-> <<>>, out |-> NoResolve, env |-> [kService |-> Self, meta |-> NoMeta],
     issued |-> NoToken, audience |-> <<>>, wrappedIn |-> NoRequest, sentReq |-> NoRequest,
     nextResult |-> NoResult, result |-> NoResult, clientResp |-> NoResp,
     trace |-> <<>>, log |-> <<>>]

\* the clone of the inbound request that ServeHTTP hands to the Director
\* (the server keeps the Host header in req.Host, not in req.Header)
Inbound(h, m) ==
    [NoRequest EXCEPT !.host = h, !.method = m, !.body = BodyOf(m)]

Init ==
    /\ cfg \in Cfgs
    /\ reqs = [i \in Requests |-> Idle]
    /\ rcall = NoCall

\* what one inbound request brings: its Host and method, and what the
\* environment will answer the Director
AllInputs == [host : Hosts, method : Methods, env : [kService : {Self}, meta : ProxyMeta]]

\* the few inputs used when several requests are in flight: a bare host, a
\* bare host with a port, and a domain-qualified host with the metadata
\* server answering and failing
FewInputs ==
    {[host |-> <<"a">>, method |-> "GET", env |-> [kService |-> Self, meta |-> NoMeta]],
     [host |-> <<"A", ":", "8">>, method |-> "POST", env |-> [kService |-> Self, meta |-> NoMeta]],
     [host |-> <<"a">> \o DotInternal, method |-> "GET",
      env |-> [kService |-> Self,
               meta |-> [doErr |-> FALSE, bytes |-> RegionPath(EuropeWest1), readErr |-> FALSE]]],
     [host |-> <<"a">> \o DotInternal \o <<":", "8">>, method |-> "GET",
      env |-> [kService |-> Self, meta |-> NoMeta]]}

\* ServeHTTP is entered for an inbound request: the Director runs, including
\* its metadata request when the hostname is domain-qualified.  (An input
\* whose metadata answer is never asked for is taken with NoMeta only.)
ServeHTTP(i, In) ==
    /\ reqs[i].pc = "idle"
    /\ \E in \in In :
          LET d == Director(Inbound(in.host, in.method), cfg, in.env)
          IN  /\ (d.out.metaQueries = 0 => in.env.meta = NoMeta)
              /\ reqs' = [reqs EXCEPT ![i] =
                    [Idle EXCEPT !.pc = "transport",
                                 !.inbound = Inbound(in.host, in.method),
                                 !.origHost = d.origHost,
                                 !.out = d.out,
                                 !.env = in.env,
                                 !.directed = d.req,
                                 !.req = d.req,
                                 !.trace = IF d.out.metaQueries > 0
                                           THEN <<"resolve", "metadata">>
                                           ELSE <<"resolve">>]]
    /\ UNCHANGED <<cfg, rcall>>

\* Transport.RoundTrip: loggingTransport logs and delegates to
\* authenticatingTransport, which returns the early response, or fetches a
\* token and then either fails or goes on to the base sender.
RoundTrip(i) ==
    /\ reqs[i].pc = "transport"
    /\ \E issued \in TokenOutcomes :
          LET r  == reqs[i]
              w  == loggingTransportDelegate(r.req)
              a  == authenticatingTransport(w, issued)
          IN  /\ (~a.fetched => issued = NoToken)
              /\ reqs' = [reqs EXCEPT ![i] =
                    [r EXCEPT !.pc = IF a.forward THEN "send" ELSE "return",
                              !.wrappedIn = w,
                              !.issued = issued,
                              !.audience = a.audience,
                              !.req = a.req,
                              !.nextResult = a.result,
                              !.log = Append(r.log, logRequest(r.req)),
                              !.trace = IF a.fetched THEN Append(r.trace, "token")
                                        ELSE r.trace]]
    /\ UNCHANGED <<cfg, rcall>>

\* the base sender (tr) sends the request to the backend
BaseSend(i) ==
    /\ reqs[i].pc = "send"
    /\ \E res \in SendOutcomes :
          reqs' = [reqs EXCEPT ![i] =
                    [reqs[i] EXCEPT !.pc = "return",
                                    !.sentReq = reqs[i].req,
                                    !.nextResult = res,
                                    !.trace = Append(reqs[i].trace, "send")]]
    /\ UNCHANGED <<cfg, rcall>>

\* the transports return and ServeHTTP writes the response to the client
Respond(i) ==
    /\ reqs[i].pc = "return"
    /\ LET r   == reqs[i]
           res == loggingTransportReturn(r.nextResult)
       IN  reqs' = [reqs EXCEPT ![i] =
                    [r EXCEPT !.pc = "done",
                              !.result = res,
                              !.clientResp = serveResponse(res),
                              !.log = Append(r.log, logResult(r.nextResult)),
                              !.trace = Append(r.trace, "respond")]]
    /\ UNCHANGED <<cfg, rcall>>

\* the per-request context is discarded after the response
Discard(i) ==
    /\ reqs[i].pc = "done"
    /\ reqs' = [reqs EXCEPT ![i] = Idle]
    /\ UNCHANGED <<cfg, rcall>>

Step(i, In) ==
    \/ ServeHTTP(i, In)
    \/ RoundTrip(i)
    \/ BaseSend(i)
    \/ Respond(i)
    \/ Discard(i)

\* one request at a time, over every input
Next == Step(1, AllInputs)

Spec == Init /\ [][Next]_vars

\* NReq requests in flight at once, over a few inputs
ConcurrentNext == \E i \in Requests : Step(i, FewInputs)

ConcurrentSpec == Init /\ [][ConcurrentNext]_vars

---------------------------------------------------------------------------
(* Claims about the proxy, checked under Spec and ConcurrentSpec *)

Happened(r, ev) == \E k \in 1..Len(r.trace) : r.trace[k] = ev
Times(r, ev) == Cardinality({k \in 1..Len(r.trace) : r.trace[k] = ev})
\* every occurrence of ev in the trace has an occurrence of before ahead of it
Precedes(r, before, ev) ==
    \A k \in 1..Len(r.trace) :
        r.trace[k] = ev => \E j \in 1..(k - 1) : r.trace[j] = before

\* C1: a request whose host resolution fails is answered with status 500 and
\* a body that contains the inbound Host string, and is never forwarded:
\* neither the token provider nor the base sender is called for it.
C1_FailedResolutionAnswered ==
    \A i \in Requests :
        LET r == reqs[i]
        IN  (r.pc # "idle" /\ r.out.err # NoErr) =>
                /\ ~Happened(r, "token")
                /\ ~Happened(r, "send")
                /\ r.pc # "send"
                /\ r.sentReq = NoRequest
                /\ r.pc = "done" =>
                      /\ r.clientResp.status = 500
                      /\ IsSubstring(r.inbound.host, r.clientResp.body)

C1_Witness ==
    /\ reqs[1].pc = "done"
    /\ reqs[1].inbound.host = MyService \o DotInternal \o <<":", "8">>
    /\ reqs[1].out.err = MetadataUnavailable
    /\ reqs[1].clientResp.status = 500
    /\ reqs[1].trace = <<"resolve", "metadata", "respond">>

\* C2: after the Director has run on a request whose host resolved to
\* authority A, the request has URL scheme "https" and URL host, Host and
\* Host header all equal to A; host "myservice" in us-central1 with project
\* hash abcd1234 gives "myservice-abcd1234-uc1.a.run.app".
C2_RewriteAgrees ==
    \A i \in Requests :
        LET r == reqs[i]
        IN  (r.pc # "idle" /\ r.out.err = NoErr) =>
                /\ r.out.host # <<>>
                /\ r.directed.urlScheme = "https"
                /\ r.directed.urlHost = r.out.host
                /\ r.directed.host = r.out.host
                /\ r.directed.hdrHost = r.out.host
                /\ r.directed.ctxEarly = NoResp
                /\ (r.inbound.host = MyService /\ cfg.currentRegion = UsCentral1
                        /\ cfg.projectHash = Abcd1234) =>
                      r.directed.host =
                        <<"m","y","s","e","r","v","i","c","e","-",
                          "a","b","c","d","1","2","3","4","-","u","c","1",
                          ".","a",".","r","u","n",".","a","p","p">>

C2_Witness ==
    /\ reqs[1].pc = "transport"
    /\ reqs[1].inbound.host = MyService
    /\ reqs[1].inbound.urlScheme = ""
    /\ reqs[1].directed.urlScheme = "https"
    /\ reqs[1].directed.host = MyService \o <<"-">> \o Abcd1234 \o <<"-","u","c","1">> \o RunAppSuffix
    /\ reqs[1].directed.urlHost = reqs[1].directed.host

\* C5: the token provider is asked for the audience "https://" + the host the
\* Director wrote into the request, not the inbound host; the token is
\* fetched after the Director's rewrite, and the base sender is called only
\* after the fetch, with the fetched token as bearer credential.
C5_AudienceIsRewrittenHost ==
    \A i \in Requests :
        LET r == reqs[i]
        IN  /\ Happened(r, "token") =>
                /\ r.out.err = NoErr
                /\ r.audience = <<"https://">> \o r.out.host
                /\ r.audience = <<"https://">> \o r.directed.host
                /\ r.audience # <<"https://">> \o r.inbound.host
            /\ Precedes(r, "resolve", "token")
            /\ Precedes(r, "token", "send")
            /\ Happened(r, "send") =>
                /\ ~r.issued.err
                /\ r.sentReq.authorization = <<"Bearer ">> \o r.issued.token
                /\ r.sentReq.host = r.out.host

C5_Witness ==
    /\ reqs[1].inbound.host = <<"A", "a", ":", "8">>
    /\ cfg.currentRegion = UsCentral1
    /\ reqs[1].trace = <<"resolve", "token", "send">>
    /\ reqs[1].audience = <<"https://">> \o <<"a","a","-">> \o Abcd1234 \o <<"-","u","c","1">> \o RunAppSuffix
    /\ reqs[1].sentReq.authorization = <<"Bearer ", "tok">>

\* C6: a request with Host "h:p" is resolved with hostname h and has the
\* outcome (authority or failure) of a request with Host "h".
C6_PortInvariant ==
    \A i \in Requests :
        LET r == reqs[i]
        IN  r.pc # "idle" =>
                \A h \in Hostnames, p \in Ports :
                    r.inbound.host = h \o <<":">> \o p =>
                        /\ r.origHost = h
                        /\ r.out = Director(Inbound(h, r.inbound.method), cfg, r.env).out

\* C8: loggingTransport hands the request on with method, host and body as it
\* got them, and returns what the wrapped sender returned: its response, or
\* its error.
C8_LoggingTransparent ==
    \A i \in Requests :
        LET r == reqs[i]
        IN  /\ r.pc \in {"send", "return", "done"} =>
                /\ r.wrappedIn.method = r.directed.method
                /\ r.wrappedIn.host = r.directed.host
                /\ r.wrappedIn.body = r.directed.body
                /\ r.wrappedIn.method = r.inbound.method
                /\ r.wrappedIn.body = r.inbound.body
            /\ r.pc = "done" =>
                /\ r.result.resp = r.nextResult.resp
                /\ r.result.err = r.nextResult.err

C8_Witness ==
    /\ reqs[1].pc = "done"
    /\ reqs[1].inbound.method = "POST"
    /\ reqs[1].wrappedIn.body = <<"payload">>
    /\ reqs[1].nextResult.err = ConnectFailed
    /\ reqs[1].result.err = ConnectFailed

\* C9, per request: resolution, its metadata request, the token fetch and the
\* backend send each happen at most once; a failure of one of them gives one
\* failed response and skips the later stages.
C9_AtMostOnce ==
    \A i \in Requests :
        LET r == reqs[i]
            resolveFailed == r.pc # "idle" /\ r.out.err # NoErr
            tokenFailed   == Happened(r, "token") /\ r.issued.err
            sendFailed    == Happened(r, "send") /\ r.nextResult.err # NoErr
        IN  /\ \A ev \in {"resolve", "metadata", "token", "send", "respond"} :
                  Times(r, ev) <= 1
            /\ r.out.metaQueries = Times(r, "metadata")
            /\ r.pc = "done" => Times(r, "respond") = 1
            /\ resolveFailed => ~Happened(r, "token") /\ ~Happened(r, "send")
            /\ tokenFailed => ~Happened(r, "send") /\ r.pc # "send"
            /\ (r.pc = "done" /\ resolveFailed) => r.clientResp.status = 500
            /\ (r.pc = "done" /\ (tokenFailed \/ sendFailed)) => r.clientResp.status = 502

\* C9, across requests: a step of one request leaves every other request as
\* it was.
C9_OthersUnaffected ==
    \A i, j \in Requests : (i # j /\ reqs'[i] # reqs[i]) => reqs'[j] = reqs[j]

\* C9: no stage is retried, a failure yields one failed response for that
\* request and skips its later stages, and other requests are unaffected.
C9_NoRetries == [](C9_AtMostOnce) /\ [][C9_OthersUnaffected]_vars

C9_Witness ==
    /\ reqs[1].pc = "done"
    /\ reqs[1].trace = <<"resolve", "token", "respond">>
    /\ reqs[1].issued.err
    /\ reqs[1].clientResp.status = 502
    /\ reqs[2].pc = "return"
    /\ reqs[2].trace = <<"resolve", "metadata", "token", "send">>
    /\ reqs[2].nextResult.resp.status = 200

---------------------------------------------------------------------------
(* ResolveSpec: resolveCloudRunHost called directly on arbitrary inputs *)

ResolveInit ==
    /\ cfg \in Cfgs
    /\ reqs = [i \in 1..NReq |-> Idle]
    /\ rcall = NoCall

ResolveCall ==
    /\ ~rcall.called
    /\ \E d \in InternalDomains, h \in ResolveHostnames, r \in Regions,
          p \in ProjectHashes, e \in Envs :
          rcall' = [called |-> TRUE, internalDomain |-> d, hostname |-> h,
                    curRegion |-> r, projectHash |-> p, env |-> e,
                    out |-> resolveCloudRunHost(d, h, r, p, e)]
    /\ UNCHANGED <<cfg, reqs>>

ResolveReturn ==
    /\ rcall.called
    /\ rcall' = NoCall
    /\ UNCHANGED <<cfg, reqs>>

ResolveNext == ResolveCall \/ ResolveReturn

ResolveSpec == ResolveInit /\ [][ResolveNext]_vars

---------------------------------------------------------------------------
(* Claims about resolveCloudRunHost, checked under ResolveSpec *)

Registered(r) == r \in DOMAIN cloudRunRegionCodes
Dotted(h) == Contains(h, ".")

\* C3: a hostname without "." and a registered current region r with code c
\* resolve, without error, to exactly "<lowercase h>-<projectHash>-<c>.a.run.app",
\* whatever the internalDomain argument is and without a metadata request.
C3_BareHostAuthority ==
    (rcall.called /\ ~Dotted(rcall.hostname) /\ Registered(rcall.curRegion)) =>
        /\ rcall.out.err = NoErr
        /\ rcall.out.host =
              ToLower(rcall.hostname) \o <<"-">> \o rcall.projectHash \o <<"-">>
              \o cloudRunRegionCodes[rcall.curRegion]
              \o <<".","a",".","r","u","n",".","a","p","p">>
        /\ rcall.out.metaQueries = 0
        /\ \A d \in InternalDomains :
              resolveCloudRunHost(d, rcall.hostname, rcall.curRegion,
                                  rcall.projectHash, rcall.env) = rcall.out

C3_Witness ==
    /\ rcall.called
    /\ rcall.hostname = <<"a", "A">>
    /\ rcall.curRegion = EuropeWest1
    /\ rcall.internalDomain = <<>>
    /\ rcall.out.host = <<"a","a","-","p","-","e","w","1",".","a",".","r","u","n",".","a","p","p">>

\* the region the Region Code Table is asked about in the recorded call:
\* currentRegion for a bare hostname, the final path segment of the metadata
\* response for a domain-qualified one
RegionLookedUp ==
    IF Dotted(rcall.hostname) THEN LastSegment(rcall.env.meta.bytes)
    ELSE rcall.curRegion

\* C4: when the region used for the lookup is registered, resolution does not
\* fail; when it is not, resolution fails with UnknownRegion naming that
\* region and returns the empty authority.
C4_RegionDecidesOutcome ==
    (rcall.called /\ (Dotted(rcall.hostname) => ~rcall.env.meta.doErr)) =>
        IF Registered(RegionLookedUp)
        THEN rcall.out.err = NoErr
        ELSE /\ rcall.out.err = UnknownRegion(RegionLookedUp)
             /\ rcall.out.host = <<>>

\* C7: resolving h and resolving lowercase(h) give the same result (authority
\* and error), and a region identifier is looked up as given: one that is not
\* in the table, such as a re-cased one, fails under its own spelling.
C7_CaseNormalised ==
    rcall.called =>
        /\ rcall.out = resolveCloudRunHost(rcall.internalDomain, ToLower(rcall.hostname),
                                           rcall.curRegion, rcall.projectHash, rcall.env)
        /\ (~Dotted(rcall.hostname) /\ ~Registered(rcall.curRegion)) =>
               rcall.out.err = UnknownRegion(rcall.curRegion)

C7_Witness ==
    /\ rcall.called
    /\ rcall.hostname = <<"A", "a", "A">>
    /\ rcall.curRegion = UsCentral1
    /\ rcall.projectHash = Abcd1234
    /\ rcall.out.err = NoErr
    /\ rcall.out.host = <<"a","a","a">> \o <<"-">> \o Abcd1234 \o <<"-","u","c","1">> \o RunAppSuffix

\* the metadata response carries no region: the body could not be read, or
\* its final path segment is empty
MalformedMeta(m) == m.readErr \/ LastSegment(m.bytes) = <<>>

\* C10: for a domain-qualified hostname, a metadata server that does not
\* respond or responds with malformed data makes resolution fail with
\* MetadataUnavailable and no authority; otherwise the authority is
\* "<K_SERVICE>-<projectHash>-<code of the metadata region>.a.run.app",
\* whatever the hostname is.
C10_MetadataPath ==
    (rcall.called /\ Dotted(rcall.hostname)) =>
        IF rcall.env.meta.doErr \/ MalformedMeta(rcall.env.meta)
        THEN /\ rcall.out.err = MetadataUnavailable
             /\ rcall.out.host = <<>>
        ELSE Registered(RegionLookedUp) =>
             /\ rcall.out.err = NoErr
             /\ rcall.out.host =
                   rcall.env.kService \o <<"-">> \o rcall.projectHash \o <<"-">>
                   \o cloudRunRegionCodes[RegionLookedUp] \o RunAppSuffix
             /\ rcall.out.metaQueries = 1

=============================================================================
